---- MODULE Spec2Model ----
(***************************************************************************)
(* OxyTrack: the offline-first synchronisation and ledger-derivation core. *)
(*   src/services/dataManager.ts  mergeArrays, subscribeToRemoteData,      *)
(*                                pushToRemoteData, clearRemoteData        *)
(*   src/App.tsx                  recalculateCustomerStats and the         *)
(*                                transaction / customer handlers          *)
(* Six specifications share the module:                                    *)
(*   SpecMerge   mergeArrays as a pure function over bounded collections   *)
(*   SpecDerive  recalculateCustomerStats over bounded transaction lists   *)
(*   SpecNorm    the normalisation of a raw remote value                   *)
(*   SpecFiles   loadFromStorage and importDataFromJSON on one blob        *)
(*   SpecTotal   mergeArrays and recalculateCustomerStats, one call each   *)
(*   Spec        several devices, one remote store                         *)
(***************************************************************************)
EXTENDS Integers, Sequences, FiniteSets, TLC

VARIABLES
    \* --- SpecMerge: one call of mergeArrays
    mBase, mRemote, mLocal, mMerged, mPc,
    \* --- SpecDerive: calls of recalculateCustomerStats
    dInput, dTxns, dCid, dResult, dAgain, dPc,
    \* --- SpecNorm: the normalisation of one raw remote value
    nRaw, nPull, nPush, nAgainPull, nAgainPush, nPc,
    \* --- SpecFiles: one stored blob or backup file, loaded or imported
    fBlob, fLoaded, fImported, fPc,
    \* --- Spec: the devices and the remote store
    data,              \* data[d]: the App's in-memory snapshot (useState, App.tsx 70)
    lastReceivedJSON,  \* lastReceivedJSON[d]: dataManager.ts 60, <<>> is ''
    selectedCustomer,  \* <<>> (null) or <<customer>> (App.tsx 78)
    dialog,            \* <<>>, the transaction being edited, or an open delete modal
    inflight,          \* inflight[d]: the pushes awaiting runTransaction: the snapshot
                       \* pushed and the lastReceivedJSON of the moment of the call
    notify,            \* notify[d]: a value event of the subscription is due
    dbValue,           \* <<>> (null) or <<raw value at DB_REF_PATH>>
    nextId,            \* the next identifier to hand out; also the clock
    ops,               \* local mutations made so far
    pushLog,           \* history: the pushes and wipes that committed or failed
    session,           \* session[d]: !loading && currentUser (App.tsx 179)
    storage,           \* storage[d]: <<the snapshot under STORAGE_KEY>>
    wiping,            \* wiping[d]: <<>>, or while clearRemoteData awaits its set()
                       \* <<the lastReceivedJSON it found when it was called>>
    alert              \* alert[d]: the title of the alert a handler that refused its
                       \* input has open (modalConfig, App.tsx 98), "" for none

mvars == <<mBase, mRemote, mLocal, mMerged, mPc>>
dvars == <<dInput, dTxns, dCid, dResult, dAgain, dPc>>
svars == <<data, lastReceivedJSON, selectedCustomer, dialog, inflight, notify, dbValue,
           nextId, ops, pushLog, session, storage, wiping, alert>>
nvars == <<nRaw, nPull, nPush, nAgainPull, nAgainPush, nPc>>
fvars == <<fBlob, fLoaded, fImported, fPc>>
vars == <<mvars, dvars, nvars, fvars, svars>>

(***************************************************************************)
(* Bounds of the model.                                                    *)
(***************************************************************************)
\* versions v1..vN an entity of the merge specification can be in
NumVersions == 3
\* longest transaction list handed to recalculateCustomerStats
MaxTxns == 3
\* timestamps (Date.now()) range over 1..MaxTime
MaxTime == 2
\* local mutations (creates, edits, deletes) in a run of Spec, all devices together
MaxOps == 2

(***************************************************************************)
(* Ledger model: unit kinds, directions, the zero counts record.           *)
(***************************************************************************)
BottleTypes == {"OXYZONE_LARGE", "OXYZONE_SMALL", "CO2_LARGE", "CO2_SMALL"}

OUTGOING == "OUTGOING"
INCOMING == "INCOMING"

INITIAL_COUNTS == [k \in BottleTypes |-> 0]

(***************************************************************************)
(* JSON.stringify of an entity: the sequence of its <<key, value>> pairs   *)
(* in the order the code creates the keys (object literals at App.tsx      *)
(* 328-336 and 417-423; spreads keep that order).  '' is <<>>.             *)
(***************************************************************************)
KeyOrder(e) ==
    IF "customerId" \in DOMAIN e
    THEN <<"id", "customerId", "customerName", "timestamp", "type", "items", "note">>
    ELSE IF "balance" \in DOMAIN e
    THEN <<"id", "name", "phone", "balance", "lastTransactionDate">>
    ELSE <<"id", "v">>

JSONstringify(e) ==
    LET ks == KeyOrder(e)
    IN  [i \in 1..Len(ks) |-> <<ks[i], e[ks[i]]>>]

(***************************************************************************)
(* mergeArrays (dataManager.ts 93-137).  A collection is a sequence of     *)
(* entities; new Map(list.map(i => [i.id, i])) keeps the last entity of an *)
(* identifier and the position of its first occurrence.                    *)
(***************************************************************************)
MapHas(list, id) == \E i \in DOMAIN list : list[i].id = id

MapGet(list, id) ==
    LET last == CHOOSE i \in DOMAIN list :
                    /\ list[i].id = id
                    /\ \A j \in DOMAIN list : list[j].id = id => j <= i
    IN  list[last]

RECURSIVE Dedup(_)
Dedup(ids) ==
    IF ids = <<>> THEN <<>>
    ELSE LET front == Dedup(SubSeq(ids, 1, Len(ids) - 1))
             x == ids[Len(ids)]
         IN  IF \E i \in DOMAIN front : front[i] = x THEN front ELSE Append(front, x)

MapKeys(list) == Dedup([i \in DOMAIN list |-> list[i].id])

\* mutant: the identifiers are collected in an array, not in a Set
AllIds_noSet(remote, local) == MapKeys(remote) \o MapKeys(local)

\* new Set([...remoteMap.keys(), ...localMap.keys()]) in insertion order
AllIds(remote, local) == Dedup(MapKeys(remote) \o MapKeys(local))

\* mutants of the inLocal branch
mergeLocalBranch_alwaysLocal(id, base, remote, local) == <<MapGet(local, id)>>

mergeLocalBranch_remoteWins(id, base, remote, local) ==
    IF MapHas(remote, id) /\ JSONstringify(MapGet(remote, id)) # JSONstringify(MapGet(local, id))
    THEN <<MapGet(remote, id)>>
    ELSE <<MapGet(local, id)>>

mergeLocalBranch_noBaseCheck(id, base, remote, local) ==
    IF MapHas(remote, id) /\ MapHas(base, id)
       /\ JSONstringify(MapGet(remote, id)) # JSONstringify(MapGet(base, id))
    THEN <<MapGet(remote, id)>>
    ELSE <<MapGet(local, id)>>

\* the inLocal branch (lines 106-125): what is pushed onto merged for id
mergeLocalBranch(id, base, remote, local) ==
    LET localItem == MapGet(local, id)
    IN  IF MapHas(remote, id) /\ MapHas(base, id)
        THEN LET localStr == JSONstringify(localItem)
                 baseStr == JSONstringify(MapGet(base, id))
             IN  IF localStr = baseStr /\ JSONstringify(MapGet(remote, id)) # baseStr
                 THEN <<MapGet(remote, id)>>
                 ELSE <<localItem>>
        ELSE <<localItem>>

\* mutants of the branch for an identifier absent from local
mergeAbsentBranch_dropAdded(id, base, remote) == <<>>

mergeAbsentBranch_keepDeleted(id, base, remote) ==
    IF MapHas(remote, id) THEN <<MapGet(remote, id)>> ELSE <<>>

\* the branch for an identifier absent from local (lines 126-133)
mergeAbsentBranch(id, base, remote) ==
    IF MapHas(remote, id) /\ ~MapHas(base, id)
    THEN <<MapGet(remote, id)>>
    ELSE <<>>

RECURSIVE mergeOver(_, _, _, _)
mergeOver(ids, base, remote, local) ==
    IF ids = <<>> THEN <<>>
    ELSE LET id == Head(ids)
         IN  (IF MapHas(local, id)
              THEN mergeLocalBranch(id, base, remote, local)
              ELSE mergeAbsentBranch(id, base, remote))
             \o mergeOver(Tail(ids), base, remote, local)

mergeArrays(base, remote, local) == mergeOver(AllIds(remote, local), base, remote, local)

(***************************************************************************)
(* SpecMerge: the inputs of one mergeArrays call, drawn from every         *)
(* collection of at most one entity per identifier, in every order.        *)
(***************************************************************************)
Ids == {"A", "B"}

Versions == 1..NumVersions

Entities == [id : Ids, v : Versions]

UniqueIds(list) == \A i, j \in DOMAIN list : list[i].id = list[j].id => i = j

Collections ==
    {list \in UNION {[1..n -> Entities] : n \in 0..Cardinality(Ids)} : UniqueIds(list)}

Devices == {"d1", "d2"}

\* the system part of a specification that only calls a pure function
IdleSystem ==
    /\ data = <<>> /\ lastReceivedJSON = <<>> /\ selectedCustomer = <<>> /\ dialog = <<>>
    /\ inflight = <<>> /\ notify = <<>> /\ dbValue = <<>> /\ nextId = 0 /\ ops = 0
    /\ pushLog = {}
    /\ session = <<>> /\ storage = <<>> /\ wiping = <<>> /\ alert = <<>>

IdleDerive ==
    /\ dInput = <<>> /\ dTxns = <<>> /\ dCid = "" /\ dResult = <<>> /\ dAgain = <<>>
    /\ dPc = "idle"

IdleNorm ==
    /\ nRaw = <<>> /\ nPull = <<>> /\ nPush = <<>> /\ nAgainPull = <<>> /\ nAgainPush = <<>>
    /\ nPc = "idle"

IdleFiles ==
    /\ fBlob = <<>> /\ fLoaded = <<>> /\ fImported = <<>> /\ fPc = "idle"

InitMerge ==
    /\ IdleDerive
    /\ IdleNorm
    /\ IdleFiles
    /\ IdleSystem
    /\ mBase \in Collections
    /\ mRemote \in Collections
    /\ mLocal \in Collections
    /\ mMerged = <<>>
    /\ mPc = "init"

MergeCall ==
    /\ mPc = "init"
    /\ mMerged' = mergeArrays(mBase, mRemote, mLocal)
    /\ mPc' = "done"
    /\ UNCHANGED <<mBase, mRemote, mLocal>>
    /\ UNCHANGED <<dvars, nvars, fvars, svars>>

NextMerge == MergeCall

SpecMerge == InitMerge /\ [][NextMerge]_vars

\* the entities of the merged collection that carry identifier id
MergedFor(id) == {i \in DOMAIN mMerged : mMerged[i].id = id}

\* C1: an identifier present in remote and absent from local and from base
\* is kept: the merged collection holds exactly remote's entity for it.
C1_RemoteAdditionSurvives ==
    mPc = "done" =>
        \A id \in Ids :
            (MapHas(mRemote, id) /\ ~MapHas(mLocal, id) /\ ~MapHas(mBase, id))
            => /\ Cardinality(MergedFor(id)) = 1
               /\ \A i \in MergedFor(id) : mMerged[i] = MapGet(mRemote, id)

\* the example of the claim: base = {}, remote = {A}, local = {} gives {A}
C1_Witness ==
    /\ mPc = "done"
    /\ mBase = <<>> /\ mLocal = <<>>
    /\ mRemote = <<[id |-> "A", v |-> 1]>>
    /\ mMerged = <<[id |-> "A", v |-> 1]>>

\* C2: an identifier present in base and in remote and absent from local
\* is dropped, whatever remote holds for it.
C2_LocalDeletionPropagates ==
    mPc = "done" =>
        \A id \in Ids :
            (MapHas(mBase, id) /\ MapHas(mRemote, id) /\ ~MapHas(mLocal, id))
            => MergedFor(id) = {}

\* base = {A:v1}, remote = {A:v2}, local = {} gives {}
C2_Witness ==
    /\ mPc = "done"
    /\ mBase = <<[id |-> "A", v |-> 1]>>
    /\ mRemote = <<[id |-> "A", v |-> 2]>>
    /\ mLocal = <<>>
    /\ mMerged = <<>>

\* C3: an identifier in base, remote and local whose local entity serialises
\* as base's and whose remote entity does not: the merged entity is remote's.
C3_UnseenRemoteUpdateAdopted ==
    mPc = "done" =>
        \A id \in Ids :
            ( /\ MapHas(mBase, id) /\ MapHas(mRemote, id) /\ MapHas(mLocal, id)
              /\ JSONstringify(MapGet(mLocal, id)) = JSONstringify(MapGet(mBase, id))
              /\ JSONstringify(MapGet(mRemote, id)) # JSONstringify(MapGet(mBase, id)) )
            => /\ Cardinality(MergedFor(id)) = 1
               /\ \A i \in MergedFor(id) : mMerged[i] = MapGet(mRemote, id)

\* base = {A:v1}, remote = {A:v2}, local = {A:v1} gives {A:v2}
C3_Witness ==
    /\ mPc = "done"
    /\ mBase = <<[id |-> "A", v |-> 1]>>
    /\ mRemote = <<[id |-> "A", v |-> 2]>>
    /\ mLocal = <<[id |-> "A", v |-> 1]>>
    /\ mMerged = <<[id |-> "A", v |-> 2]>>

\* C4: an identifier in local whose local entity differs from base's, or is
\* absent from base, keeps local's entity, whatever remote holds.
C4_LocalWinsWhenDirty ==
    mPc = "done" =>
        \A id \in Ids :
            ( /\ MapHas(mLocal, id)
              /\ \/ ~MapHas(mBase, id)
                 \/ JSONstringify(MapGet(mLocal, id)) # JSONstringify(MapGet(mBase, id)) )
            => /\ Cardinality(MergedFor(id)) = 1
               /\ \A i \in MergedFor(id) : mMerged[i] = MapGet(mLocal, id)

\* the true conflict: base = {A:v1}, remote = {A:v3}, local = {A:v2} gives {A:v2}
C4_Witness ==
    /\ mPc = "done"
    /\ mBase = <<[id |-> "A", v |-> 1]>>
    /\ mRemote = <<[id |-> "A", v |-> 3]>>
    /\ mLocal = <<[id |-> "A", v |-> 2]>>
    /\ mMerged = <<[id |-> "A", v |-> 2]>>

\* the one case in which remote overrides local
RemoteOverrides(id) ==
    /\ MapHas(mLocal, id)
    /\ MapHas(mBase, id)
    /\ JSONstringify(MapGet(mLocal, id)) = JSONstringify(MapGet(mBase, id))
    /\ MapHas(mRemote, id)
    /\ JSONstringify(MapGet(mRemote, id)) # JSONstringify(MapGet(mBase, id))

\* C5: for an identifier in local the merged entity differs from local's
\* exactly when local serialises as base's, remote holds the identifier and
\* remote's entity does not serialise as base's; otherwise it is local's.
C5_RemoteOverridesInOneCase ==
    mPc = "done" =>
        \A id \in Ids :
            MapHas(mLocal, id)
            => /\ Cardinality(MergedFor(id)) = 1
               /\ \A i \in MergedFor(id) :
                    /\ (mMerged[i] # MapGet(mLocal, id)) <=> RemoteOverrides(id)
                    /\ ~RemoteOverrides(id) => mMerged[i] = MapGet(mLocal, id)

\* both sides of the case split in one call: A is overridden by remote, B
\* (changed on both sides) stays local's
C5_Witness ==
    /\ mPc = "done"
    /\ RemoteOverrides("A")
    /\ MapHas(mLocal, "B") /\ MapHas(mRemote, "B") /\ MapHas(mBase, "B")
    /\ ~RemoteOverrides("B")
    /\ MapGet(mRemote, "B") # MapGet(mLocal, "B")
    /\ \E i \in MergedFor("A") : mMerged[i] = MapGet(mRemote, "A")
    /\ \E i \in MergedFor("B") : mMerged[i] = MapGet(mLocal, "B")

(***************************************************************************)
(* recalculateCustomerStats (App.tsx 283-305).                             *)
(***************************************************************************)
\* allTransactions.filter(t => t.customerId === customerId): a new array
FilterByCustomer(customerId, list) == SelectSeq(list, LAMBDA t : t.customerId = customerId)

\* Array.prototype.sort((a, b) => a.timestamp - b.timestamp): stable, ascending
RECURSIVE InsertByTimestamp(_, _)
InsertByTimestamp(sorted, t) ==
    IF sorted = <<>> THEN <<t>>
    ELSE IF sorted[Len(sorted)].timestamp <= t.timestamp
    THEN Append(sorted, t)
    ELSE Append(InsertByTimestamp(SubSeq(sorted, 1, Len(sorted) - 1), t), sorted[Len(sorted)])

RECURSIVE SortByTimestamp(_)
SortByTimestamp(list) ==
    IF list = <<>> THEN <<>>
    ELSE InsertByTimestamp(SortByTimestamp(SubSeq(list, 1, Len(list) - 1)), list[Len(list)])

MathMax(a, b) == IF a >= b THEN a ELSE b

\* mutant: a balance is not taken below zero
applyTx_clampsAtZero(acc, tx) ==
    [balance |-> [k \in BottleTypes |->
                    IF k \in DOMAIN tx.items
                    THEN IF tx.type = OUTGOING
                         THEN acc.balance[k] + tx.items[k]
                         ELSE MathMax(acc.balance[k] - tx.items[k], 0)
                    ELSE acc.balance[k]],
     lastDate |-> MathMax(acc.lastDate, tx.timestamp)]

\* mutant: INCOMING is added like OUTGOING
applyTx_noDirection(acc, tx) ==
    [balance |-> [k \in BottleTypes |->
                    IF k \in DOMAIN tx.items
                    THEN acc.balance[k] + tx.items[k]
                    ELSE acc.balance[k]],
     lastDate |-> MathMax(acc.lastDate, tx.timestamp)]

\* one round of customerTransactions.forEach (lines 292-302): only the kinds
\* that are keys of tx.items are touched
applyTx(acc, tx) ==
    [balance |-> [k \in BottleTypes |->
                    IF k \in DOMAIN tx.items
                    THEN IF tx.type = OUTGOING
                         THEN acc.balance[k] + tx.items[k]
                         ELSE acc.balance[k] - tx.items[k]
                    ELSE acc.balance[k]],
     lastDate |-> MathMax(acc.lastDate, tx.timestamp)]

RECURSIVE foldTxns(_, _)
foldTxns(acc, list) ==
    IF list = <<>> THEN acc ELSE foldTxns(applyTx(acc, Head(list)), Tail(list))

\* mutant: sorts the caller's array in place and keeps the timestamp of the
\* last transaction visited
recalculateCall_sortsArgument(customerId, allTransactions) ==
    LET sortedAll == SortByTimestamp(allTransactions)
        r == foldTxns([balance |-> INITIAL_COUNTS, lastDate |-> 0],
                      FilterByCustomer(customerId, sortedAll))
    IN  [balance |-> r.balance, lastDate |-> r.lastDate, allTransactions |-> sortedAll]

\* The call: its return value {balance, lastDate} and the caller's array as
\* the call leaves it (filter copies, so the in-place sort acts on the copy).
recalculateCall(customerId, allTransactions) ==
    LET customerTransactions == FilterByCustomer(customerId, allTransactions)
        sorted == SortByTimestamp(customerTransactions)
        r == foldTxns([balance |-> INITIAL_COUNTS, lastDate |-> 0], sorted)
    IN  [balance |-> r.balance, lastDate |-> r.lastDate, allTransactions |-> allTransactions]

recalculateCustomerStats(customerId, allTransactions) ==
    LET r == recalculateCall(customerId, allTransactions)
    IN  [balance |-> r.balance, lastDate |-> r.lastDate]

(***************************************************************************)
(* SpecDerive: transaction lists of two customers, both directions,        *)
(* timestamps with ties, a full and a partial payload; and the list        *)
(* [OUT 5, IN 2, OUT 1] of one customer.                                   *)
(***************************************************************************)
CustomerIds == {"c1", "c2"}

OneKind(k, q) == [j \in BottleTypes |-> IF j = k THEN q ELSE 0]

\* a payload with all four kinds, and one that holds two keys only
Payloads ==
    { OneKind("OXYZONE_LARGE", 1),
      [j \in {"OXYZONE_LARGE", "CO2_SMALL"} |-> IF j = "CO2_SMALL" THEN 2 ELSE 1] }

TxnShapes ==
    [customerId : CustomerIds, timestamp : 1..MaxTime, type : {OUTGOING, INCOMING},
     items : Payloads]

MkTxn(i, sh) ==
    [id |-> i, customerId |-> sh.customerId, customerName |-> "N",
     timestamp |-> sh.timestamp, type |-> sh.type, items |-> sh.items, note |-> ""]

TxnList(n, f) == [i \in 1..n |-> MkTxn(i, f[i])]

ExampleTxn(i, ts, type, q) ==
    [id |-> i, customerId |-> "c1", customerName |-> "N", timestamp |-> ts,
     type |-> type, items |-> OneKind("OXYZONE_LARGE", q), note |-> ""]

ExampleList ==
    <<ExampleTxn(1, 1, OUTGOING, 5), ExampleTxn(2, 2, INCOMING, 2), ExampleTxn(3, 3, OUTGOING, 1)>>

\* three distinct timestamps given newest first, the middle one of another customer
NewestFirstList ==
    <<MkTxn(1, [customerId |-> "c1", timestamp |-> 3, type |-> OUTGOING,
                items |-> OneKind("CO2_LARGE", 2)]),
      MkTxn(2, [customerId |-> "c2", timestamp |-> 2, type |-> OUTGOING,
                items |-> OneKind("CO2_LARGE", 1)]),
      MkTxn(3, [customerId |-> "c1", timestamp |-> 1, type |-> INCOMING,
                items |-> OneKind("CO2_LARGE", 1)])>>

IdleMerge ==
    /\ mBase = <<>> /\ mRemote = <<>> /\ mLocal = <<>> /\ mMerged = <<>>
    /\ mPc = "idle"

InitDerive ==
    /\ IdleMerge
    /\ IdleNorm
    /\ IdleFiles
    /\ IdleSystem
    /\ \/ \E n \in 0..MaxTxns : \E f \in [1..n -> TxnShapes] : dInput = TxnList(n, f)
       \/ dInput \in {ExampleList, NewestFirstList}
    /\ dTxns = dInput
    /\ dCid = "c1"
    /\ dResult = <<>>
    /\ dAgain = <<>>
    /\ dPc = "init"

\* two calls in a row on the same array
DeriveCall ==
    /\ dPc = "init"
    /\ LET first == recalculateCall(dCid, dTxns)
           second == recalculateCall(dCid, first.allTransactions)
       IN  /\ dResult' = <<[balance |-> first.balance, lastDate |-> first.lastDate]>>
           /\ dAgain' = <<[balance |-> second.balance, lastDate |-> second.lastDate]>>
           /\ dTxns' = second.allTransactions
    /\ dPc' = "done"
    /\ UNCHANGED <<dInput, dCid>>
    /\ UNCHANGED <<mvars, nvars, fvars, svars>>

\* one transaction is removed from the list and the state is derived again
DeleteAndDerive ==
    /\ dPc = "done"
    /\ \E i \in DOMAIN dTxns :
        LET rest == SelectSeq(dTxns, LAMBDA t : t.id # dTxns[i].id)
            r == recalculateCall(dCid, rest)
        IN  /\ dResult' = <<[balance |-> r.balance, lastDate |-> r.lastDate]>>
            /\ dAgain' = dResult'
            /\ dTxns' = r.allTransactions
            /\ dInput' = rest
    /\ dPc' = "deleted"
    /\ UNCHANGED dCid
    /\ UNCHANGED <<mvars, nvars, fvars, svars>>

NextDerive == DeriveCall \/ DeleteAndDerive

SpecDerive == InitDerive /\ [][NextDerive]_vars

\* the positions of the customer's transactions of one direction
TxnsOf(list, customerId, type) ==
    {i \in DOMAIN list : list[i].customerId = customerId /\ list[i].type = type}

RECURSIVE SumQty(_, _, _)
SumQty(list, idx, k) ==
    IF idx = {} THEN 0
    ELSE LET i == CHOOSE j \in idx : TRUE
         IN  (IF k \in DOMAIN list[i].items THEN list[i].items[k] ELSE 0)
             + SumQty(list, idx \ {i}, k)

MaxTimestamp(list, customerId) ==
    LET ts == {list[i].timestamp : i \in {j \in DOMAIN list : list[j].customerId = customerId}}
    IN  IF ts = {} THEN 0 ELSE CHOOSE m \in ts : \A x \in ts : x <= m

\* C9: the derived balance of every kind is the customer's OUTGOING total
\* minus the customer's INCOMING total, from zero; lastDate is the largest
\* timestamp of the customer's transactions (0 when there are none); other
\* customers' transactions do not count.
C9_ReplayCorrect ==
    dPc \in {"done", "deleted"} =>
        /\ \A k \in BottleTypes :
             dResult[1].balance[k]
               = SumQty(dInput, TxnsOf(dInput, dCid, OUTGOING), k)
                 - SumQty(dInput, TxnsOf(dInput, dCid, INCOMING), k)
        /\ dResult[1].lastDate = MaxTimestamp(dInput, dCid)
        /\ dResult[1] = recalculateCustomerStats(dCid, FilterByCustomer(dCid, dInput))
        /\ (dInput = ExampleList => dResult[1].balance["OXYZONE_LARGE"] = 4)

\* [OUT 5, IN 2, OUT 1] after its middle transaction was deleted: balance 6
C9_Witness ==
    /\ dPc = "deleted"
    /\ dInput = <<ExampleList[1], ExampleList[3]>>
    /\ dResult[1].balance["OXYZONE_LARGE"] = 6
    /\ dResult[1].lastDate = 3

DistinctTimestamps(list) ==
    \A i, j \in DOMAIN list : list[i].timestamp = list[j].timestamp => i = j

Reorderings(list) ==
    {[i \in DOMAIN list |-> list[p[i]]] : p \in Permutations(DOMAIN list)}

\* C10: a second call returns what the first returned, the array handed to
\* the call is left as it was, and every reordering of a list with distinct
\* timestamps derives the same balance and lastDate.
C10_Deterministic ==
    dPc \in {"done", "deleted"} =>
        /\ dAgain = dResult
        /\ dTxns = dInput
        /\ DistinctTimestamps(dInput) =>
             \A l \in Reorderings(dInput) : recalculateCustomerStats(dCid, l) = dResult[1]

\* a list given newest first, with three distinct timestamps and another
\* customer's transaction in the middle
C10_Witness ==
    /\ dPc = "done"
    /\ Len(dInput) = 3
    /\ DistinctTimestamps(dInput)
    /\ dInput[1].timestamp > dInput[3].timestamp
    /\ dInput[1].customerId = dCid /\ dInput[3].customerId = dCid
    /\ dInput[2].customerId # dCid
    /\ dInput[1].type # dInput[3].type
    /\ dResult[1].balance["CO2_LARGE"] = 1
    /\ dTxns = dInput

(***************************************************************************)
(* Snapshots (AppData) and their serialisation.                            *)
(***************************************************************************)
EMPTY_DB == [customers |-> <<>>, transactions |-> <<>>, version |-> 1,
             storeLimits |-> INITIAL_COUNTS]

\* JSON.stringify(data): the keys in the order every snapshot literal of the
\* code has them (customers, transactions, version, storeLimits)
SnapshotJSON(snap) ==
    << <<"customers", [i \in DOMAIN snap.customers |-> JSONstringify(snap.customers[i])]>>,
       <<"transactions", [i \in DOMAIN snap.transactions |-> JSONstringify(snap.transactions[i])]>>,
       <<"version", snap.version>>,
       <<"storeLimits", snap.storeLimits>> >>

JSONparseEntity(pairs) ==
    [k \in {pairs[i][1] : i \in DOMAIN pairs} |->
        pairs[CHOOSE i \in DOMAIN pairs : pairs[i][1] = k][2]]

\* JSON.parse of a serialised snapshot
JSONparse(json) ==
    [customers |-> [i \in DOMAIN json[1][2] |-> JSONparseEntity(json[1][2][i])],
     transactions |-> [i \in DOMAIN json[2][2] |-> JSONparseEntity(json[2][2][i])],
     version |-> json[3][2],
     storeLimits |-> json[4][2]]

(***************************************************************************)
(* The remote store keeps a raw value.  A collection of it is absent, an   *)
(* array, or an object keyed by index (dataManager.ts 68-69); an empty     *)
(* array or object is not stored at all (dataManager.ts 69, 198).  A       *)
(* version of 0 stands for an absent (falsy) version.                      *)
(***************************************************************************)
RawAbsent == [kind |-> "absent", items |-> <<>>]

RawArray(list) == IF list = <<>> THEN RawAbsent ELSE [kind |-> "array", items |-> list]

\* what the store holds after a snapshot object was written to it
storeWrite(snap) ==
    [customers |-> RawArray(snap.customers),
     transactions |-> RawArray(snap.transactions),
     version |-> snap.version,
     storeLimits |-> <<snap.storeLimits>>]

\* mutant: Object.values is left out, a keyed collection is read as empty
toArray_dropsKeyed(obj) == IF obj.kind = "array" THEN obj.items ELSE <<>>

\* mutant: an array comes back in reverse order
toArray_reversesArrays(obj) ==
    IF obj.kind = "absent" THEN <<>>
    ELSE IF obj.kind = "array"
    THEN [i \in DOMAIN obj.items |-> obj.items[Len(obj.items) + 1 - i]]
    ELSE [i \in DOMAIN obj.items |-> obj.items[i][2]]

\* toArray (lines 70-74 and 155-159); Object.values of a keyed object
toArray(obj) ==
    IF obj.kind = "absent" THEN <<>>
    ELSE IF obj.kind = "array" THEN obj.items
    ELSE [i \in DOMAIN obj.items |-> obj.items[i][2]]

\* normalizedData of the subscription callback (lines 76-81); val is <<>> for null
normalizePull(val) ==
    IF val = <<>>
    THEN [customers |-> <<>>, transactions |-> <<>>, version |-> 1,
          storeLimits |-> INITIAL_COUNTS]
    ELSE [customers |-> toArray(val[1].customers),
          transactions |-> toArray(val[1].transactions),
          version |-> IF val[1].version # 0 THEN val[1].version ELSE 1,
          storeLimits |-> IF val[1].storeLimits # <<>> THEN val[1].storeLimits[1]
                          ELSE INITIAL_COUNTS]

\* remote of the transaction update function (lines 161-166); currentData is not null
normalizePush(currentData) ==
    [customers |-> toArray(currentData.customers),
     transactions |-> toArray(currentData.transactions),
     version |-> IF currentData.version # 0 THEN currentData.version ELSE 1,
     storeLimits |-> IF currentData.storeLimits # <<>> THEN currentData.storeLimits[1]
                     ELSE INITIAL_COUNTS]

(***************************************************************************)
(* SpecNorm: the two normalisations applied to one raw value, and applied  *)
(* again to the snapshot the first application produced.                   *)
(***************************************************************************)
\* longest collection of a raw value
MaxRawLen == 2

RawEntities == {[id |-> i, v |-> 1] : i \in Ids}

RawLists == UNION {[1..n -> RawEntities] : n \in 0..MaxRawLen}

\* an object whose keys are the indices of a sparse array, in the order
\* Object.values enumerates them
KeyedObject(list) ==
    [kind |-> "object", items |-> [i \in DOMAIN list |-> <<2 * (i - 1), list[i]>>]]

RawKinds == {"absent", "array", "object"}

\* a collection as a value event or a transaction read can deliver it
RawCollection(kind, list) ==
    IF kind = "absent" THEN RawAbsent
    ELSE IF kind = "array" THEN [kind |-> "array", items |-> list]
    ELSE KeyedObject(list)

\* version: 0 stands for a missing (falsy) field
RawVersions == 0..2

RawLimits == {<<>>, <<INITIAL_COUNTS>>, <<OneKind("OXYZONE_LARGE", 5)>>}

\* a snapshot object of the program handed to the normalisation as its input
AsRaw(snap) ==
    [customers |-> [kind |-> "array", items |-> snap.customers],
     transactions |-> [kind |-> "array", items |-> snap.transactions],
     version |-> snap.version,
     storeLimits |-> <<snap.storeLimits>>]

InitNorm ==
    /\ IdleMerge
    /\ IdleDerive
    /\ IdleFiles
    /\ IdleSystem
    /\ \/ nRaw = <<>>
       \/ \E ck \in RawKinds, tk \in RawKinds, cl \in RawLists, tl \in RawLists,
             v \in RawVersions, l \in RawLimits :
            nRaw = <<[customers |-> RawCollection(ck, cl),
                      transactions |-> RawCollection(tk, tl),
                      version |-> v, storeLimits |-> l]>>
    /\ nPull = <<>> /\ nPush = <<>> /\ nAgainPull = <<>> /\ nAgainPush = <<>>
    /\ nPc = "init"

\* the subscription callback and the transaction update function normalise
\* the same raw value (the update function returns before it for null)
NormalizeCall ==
    /\ nPc = "init"
    /\ nPull' = normalizePull(nRaw)
    /\ nPush' = IF nRaw = <<>> THEN <<>> ELSE <<normalizePush(nRaw[1])>>
    /\ nPc' = "once"
    /\ UNCHANGED <<nRaw, nAgainPull, nAgainPush>>
    /\ UNCHANGED <<mvars, dvars, fvars, svars>>

\* the normalised snapshot is normalised again
NormalizeAgain ==
    /\ nPc = "once"
    /\ nAgainPull' = normalizePull(<<AsRaw(nPull)>>)
    /\ nAgainPush' = normalizePush(AsRaw(nPull))
    /\ nPc' = "twice"
    /\ UNCHANGED <<nRaw, nPull, nPush>>
    /\ UNCHANGED <<mvars, dvars, fvars, svars>>

NextNorm == NormalizeCall \/ NormalizeAgain

SpecNorm == InitNorm /\ [][NextNorm]_vars

\* C11: normalising a normalised snapshot, by the pull's normalisation or by
\* the push's, returns a snapshot equal to it in customers, transactions,
\* version and store limits.
C11_NormalizationIdempotent ==
    nPc = "twice" =>
        /\ nAgainPull = nPull
        /\ nAgainPush = nPull

\* a raw value with a keyed collection of two entities, an array of two, no
\* version and no store limits was normalised twice
C11_Witness ==
    /\ nPc = "twice"
    /\ nRaw # <<>>
    /\ nRaw[1].customers.kind = "object"
    /\ nRaw[1].transactions.kind = "array"
    /\ nRaw[1].version = 0
    /\ nRaw[1].storeLimits = <<>>
    /\ Len(nPull.customers) = 2 /\ nPull.customers[1] # nPull.customers[2]
    /\ Len(nPull.transactions) = 2 /\ nPull.transactions[1] # nPull.transactions[2]
    /\ nAgainPull = nPull

\* the list a raw collection stands for
ValuesOf(coll) ==
    IF coll.kind = "absent" THEN <<>>
    ELSE IF coll.kind = "array" THEN coll.items
    ELSE [i \in DOMAIN coll.items |-> coll.items[i][2]]

IsList(x) == DOMAIN x = 1..Len(x)

\* C12: for every raw value, null and missing fields included, the
\* normalised snapshot has lists for customers and transactions (the values
\* of a keyed map, the empty list for an absent collection) and the all-zero
\* counts for absent store limits; the push normalises a value as the pull does.
C12_NormalizationContract ==
    nPc # "init" =>
        /\ IsList(nPull.customers) /\ IsList(nPull.transactions)
        /\ nRaw = <<>> =>
            /\ nPull.customers = <<>> /\ nPull.transactions = <<>>
            /\ nPull.storeLimits = [k \in BottleTypes |-> 0]
        /\ nRaw # <<>> =>
            /\ nPull.customers = ValuesOf(nRaw[1].customers)
            /\ nPull.transactions = ValuesOf(nRaw[1].transactions)
            /\ nRaw[1].storeLimits = <<>> => nPull.storeLimits = [k \in BottleTypes |-> 0]
            /\ nRaw[1].storeLimits # <<>> => nPull.storeLimits = nRaw[1].storeLimits[1]
            /\ nPush = <<nPull>>

\* a raw value with a keyed map, an absent collection and no store limits
C12_Witness ==
    /\ nPc = "once"
    /\ nRaw # <<>>
    /\ nRaw[1].customers.kind = "object" /\ Len(nRaw[1].customers.items) = 2
    /\ nRaw[1].transactions.kind = "absent"
    /\ nRaw[1].storeLimits = <<>>
    /\ nPull.customers = <<nRaw[1].customers.items[1][2], nRaw[1].customers.items[2][2]>>
    /\ nPull.transactions = <<>>
    /\ nPush = <<nPull>>

(***************************************************************************)
(* SpecFiles: loadFromStorage (dataManager.ts 44-56) and                   *)
(* importDataFromJSON (279-299) on one blob.  A blob is absent, is not     *)
(* JSON, is the JSON null, or is a JSON object; the object and the value   *)
(* the functions return are written like a raw store value: a collection   *)
(* is absent, an array or a keyed object, version 0 is a missing version.  *)
(***************************************************************************)
BlobKinds == {"absent", "corrupt", "null", "json"}

\* the object a blob parses to has both collections
HasCollections(v) == v.customers.kind # "absent" /\ v.transactions.kind # "absent"

\* if (!parsed.storeLimits) parsed.storeLimits = { ...INITIAL_COUNTS }
withDefaultLimits(v) ==
    [v EXCEPT !.storeLimits = IF @ = <<>> THEN <<INITIAL_COUNTS>> ELSE @]

\* loadFromStorage (lines 44-56)
loadFromStorage(blob) ==
    IF blob.kind = "absent" THEN AsRaw(EMPTY_DB)
    ELSE IF blob.kind \in {"corrupt", "null"} THEN AsRaw(EMPTY_DB)
    ELSE withDefaultLimits(blob.value)

\* importDataFromJSON (lines 279-299): <<>> when the promise is rejected
importDataFromJSON(blob) ==
    IF blob.kind # "json" THEN <<>>
    ELSE IF ~HasCollections(blob.value) THEN <<>>
    ELSE <<withDefaultLimits(blob.value)>>

\* a value of the program that has a customers list, a transactions list
\* and a store-limits record
IsValidSnapshot(v) ==
    /\ v.customers.kind = "array"
    /\ v.transactions.kind = "array"
    /\ v.storeLimits # <<>>

\* the snapshot a valid value is
FromRaw(v) ==
    [customers |-> v.customers.items, transactions |-> v.transactions.items,
     version |-> v.version, storeLimits |-> v.storeLimits[1]]

InitFiles ==
    /\ IdleMerge
    /\ IdleDerive
    /\ IdleNorm
    /\ IdleSystem
    /\ \/ \E k \in BlobKinds \ {"json"} : fBlob = [kind |-> k]
       \/ \E ck \in RawKinds, tk \in RawKinds, cl \in RawLists, tl \in RawLists,
             v \in RawVersions, l \in RawLimits :
            fBlob = [kind |-> "json",
                     value |-> [customers |-> RawCollection(ck, cl),
                                transactions |-> RawCollection(tk, tl),
                                version |-> v, storeLimits |-> l]]
    /\ fLoaded = <<>> /\ fImported = <<>>
    /\ fPc = "init"

\* the App loads the blob at start (App.tsx 128)
LoadCall ==
    /\ fPc = "init"
    /\ fLoaded' = <<loadFromStorage(fBlob)>>
    /\ fPc' = "loaded"
    /\ UNCHANGED <<fBlob, fImported>>
    /\ UNCHANGED <<mvars, dvars, nvars, svars>>

\* the blob is chosen as a backup file (App.tsx 242)
ImportCall ==
    /\ fPc = "init"
    /\ fImported' = importDataFromJSON(fBlob)
    /\ fPc' = "imported"
    /\ UNCHANGED <<fBlob, fLoaded>>
    /\ UNCHANGED <<mvars, dvars, nvars, svars>>

NextFiles == LoadCall \/ ImportCall

SpecFiles == InitFiles /\ [][NextFiles]_vars

\* base of the merge (lines 169-172)
mergeBase(lastJSON) ==
    IF lastJSON # <<>>
    THEN JSONparse(lastJSON)
    ELSE [customers |-> <<>>, transactions |-> <<>>, version |-> 0,
          storeLimits |-> INITIAL_COUNTS]

\* mutant: the store limits of the remote value are written back
transactionUpdate_remoteLimits(currentData, snap, lastJSON) ==
    IF currentData = <<>>
    THEN snap
    ELSE LET rem == normalizePush(currentData[1])
             base == mergeBase(lastJSON)
         IN  [customers |-> mergeArrays(base.customers, rem.customers, snap.customers),
              transactions |-> mergeArrays(base.transactions, rem.transactions,
                                           snap.transactions),
              version |-> (IF rem.version # 0 THEN rem.version ELSE 0) + 1,
              storeLimits |-> rem.storeLimits]

\* mutant: with lastReceivedJSON unset the remote value is taken as the base
transactionUpdate_remoteAsBase(currentData, snap, lastJSON) ==
    IF currentData = <<>>
    THEN snap
    ELSE LET rem == normalizePush(currentData[1])
             base == IF lastJSON # <<>> THEN mergeBase(lastJSON) ELSE rem
         IN  [customers |-> mergeArrays(base.customers, rem.customers, snap.customers),
              transactions |-> mergeArrays(base.transactions, rem.transactions,
                                           snap.transactions),
              version |-> (IF rem.version # 0 THEN rem.version ELSE 0) + 1,
              storeLimits |-> snap.storeLimits]

\* mutant: an empty store is merged with like any other value
transactionUpdate_mergesWithNull(currentData, snap, lastJSON) ==
    LET rem == normalizePull(currentData)
        base == mergeBase(lastJSON)
    IN  [customers |-> mergeArrays(base.customers, rem.customers, snap.customers),
         transactions |-> mergeArrays(base.transactions, rem.transactions,
                                      snap.transactions),
         version |-> rem.version + 1,
         storeLimits |-> snap.storeLimits]

\* the update function handed to runTransaction (lines 149-185): the object
\* it returns for the store's current value
transactionUpdate(currentData, snap, lastJSON) ==
    IF currentData = <<>>
    THEN snap
    ELSE LET rem == normalizePush(currentData[1])
             base == mergeBase(lastJSON)
         IN  [customers |-> mergeArrays(base.customers, rem.customers, snap.customers),
              transactions |-> mergeArrays(base.transactions, rem.transactions,
                                           snap.transactions),
              version |-> (IF rem.version # 0 THEN rem.version ELSE 0) + 1,
              storeLimits |-> snap.storeLimits]

\* mutant: the guard against pushing back what was just received is gone
pushSuppressed_never(snap, lastJSON) == FALSE

\* pushToRemoteData returns before the transaction (lines 141-144)
pushSuppressed(snap, lastJSON) == SnapshotJSON(snap) = lastJSON

\* mutant: a snapshot without transactions is not pushed
pushStarts_transactionsOnly(snap, lastJSON) ==
    /\ Len(snap.transactions) > 0
    /\ ~pushSuppressed(snap, lastJSON)

\* the save-on-change effect (App.tsx 178-199) for a new snapshot: whether a
\* transaction is started.  
pushStarts(snap, lastJSON) ==
    /\ Len(snap.customers) > 0 \/ Len(snap.transactions) > 0
    /\ ~pushSuppressed(snap, lastJSON)

(***************************************************************************)
(* The App's handlers.  A state update, the render that follows it and the *)
(* effects of that render are one step: the handlers of one device run one *)
(* at a time, and only the awaited runTransaction is a step of its own.    *)
(***************************************************************************)
\* the effect at App.tsx 168-175
syncSelected(sel, customers) ==
    IF sel = <<>> THEN sel
    ELSE IF \E i \in DOMAIN customers : customers[i].id = sel[1].id
    THEN LET first == CHOOSE i \in DOMAIN customers :
                        /\ customers[i].id = sel[1].id
                        /\ \A j \in DOMAIN customers : customers[j].id = sel[1].id => i <= j
         IN  <<customers[first]>>
    ELSE sel

\* mutant: the snapshot is saved only when a transaction is started for it
saveOnChange_onlyWhenPushing(d, snap, lastJSON, active) ==
    /\ storage' = IF active /\ pushStarts(snap, lastJSON)
                  THEN [storage EXCEPT ![d] = <<snap>>] ELSE storage
    /\ inflight' = [inflight EXCEPT ![d] =
                        IF active /\ pushStarts(snap, lastJSON)
                        THEN @ \cup {[snap |-> snap, base |-> lastJSON]}
                        ELSE @]

\* the save-on-change effect (App.tsx 178-199) of a render of device d
\* whose snapshot is snap; active is !loading && currentUser
saveOnChange(d, snap, lastJSON, active) ==
    /\ storage' = IF active THEN [storage EXCEPT ![d] = <<snap>>] ELSE storage
    /\ inflight' = [inflight EXCEPT ![d] =
                        IF active /\ pushStarts(snap, lastJSON)
                        THEN @ \cup {[snap |-> snap, base |-> lastJSON]}
                        ELSE @]

\* setData(snap) on device d followed by the render's effects
SetData(d, snap, lastJSON, sel) ==
    /\ data' = [data EXCEPT ![d] = snap]
    /\ lastReceivedJSON' = [lastReceivedJSON EXCEPT ![d] = lastJSON]
    /\ selectedCustomer' = [selectedCustomer EXCEPT ![d] = syncSelected(sel, snap.customers)]
    /\ saveOnChange(d, snap, lastJSON, session[d])

\* newCustomers of the setData updaters (lines 350-354, 395-399)
replaceCustomer(customers, updated) ==
    IF \E i \in DOMAIN customers : customers[i].id = updated.id
    THEN LET idx == CHOOSE i \in DOMAIN customers :
                      /\ customers[i].id = updated.id
                      /\ \A j \in DOMAIN customers : customers[j].id = updated.id => i <= j
         IN  [customers EXCEPT ![idx] = updated]
    ELSE customers

\* (prev.version || 1) + 1
bumpVersion(v) == (IF v # 0 THEN v ELSE 1) + 1

\* Date.now(): the clock advances with every identifier handed out
Now == nextId

\* an account that already holds one customer without transactions
SeededDB ==
    [customers |-> <<[id |-> 1, name |-> "N", phone |-> "P", balance |-> INITIAL_COUNTS,
                      lastTransactionDate |-> 1]>>,
     transactions |-> <<>>, version |-> 2, storeLimits |-> INITIAL_COUNTS]

\* Fresh devices (signed in, the empty default in local storage, no value
\* event received yet) of an account that is new or that holds one customer.
Init ==
    /\ IdleMerge
    /\ IdleDerive
    /\ IdleNorm
    /\ IdleFiles
    /\ data = [d \in Devices |-> EMPTY_DB]
    /\ lastReceivedJSON = [d \in Devices |-> <<>>]
    /\ selectedCustomer = [d \in Devices |-> <<>>]
    /\ dialog = [d \in Devices |-> <<>>]
    /\ inflight = [d \in Devices |-> {}]
    /\ notify = [d \in Devices |-> TRUE]
    /\ dbValue \in {<<>>, <<storeWrite(SeededDB)>>}
    /\ nextId = 2
    /\ ops = 0
    /\ pushLog = {}
    /\ session = [d \in Devices |-> TRUE]
    /\ storage = [d \in Devices |-> <<EMPTY_DB>>]
    /\ wiping = [d \in Devices |-> <<>>]
    /\ alert = [d \in Devices |-> ""]

\* what is open on device d: nothing, the edit form or the delete modal
dialogKind(d) == IF dialog[d] = <<>> THEN "none" ELSE dialog[d][1].kind

\* a customer row is tapped (App.tsx 831, 875)
SelectCustomer(d) ==
    /\ session[d]
    /\ alert[d] = ""
    /\ dialog[d] = <<>>
    /\ \E i \in DOMAIN data[d].customers :
        /\ selectedCustomer[d] # <<data[d].customers[i]>>
        /\ selectedCustomer' = [selectedCustomer EXCEPT ![d] = <<data[d].customers[i]>>]
    /\ UNCHANGED <<storage, data, lastReceivedJSON, dialog, inflight, notify, dbValue, nextId, ops,
                   pushLog>>
    /\ UNCHANGED <<mvars, dvars, nvars, fvars, session, wiping, alert>>

\* if (!newCustomerName) (App.tsx 413)
nameMissing(newCustomerName) == newCustomerName = ""

\* handleCreateCustomer (App.tsx 412-433)
handleCreateCustomer(d) ==
    /\ session[d]
    /\ alert[d] = ""
    /\ dialog[d] = <<>>
    /\ ops < MaxOps
    /\ \E newCustomerName \in {"", "N"} :
        IF nameMissing(newCustomerName)
        THEN /\ alert' = [alert EXCEPT ![d] = "Missing Information"]
             /\ UNCHANGED <<storage, data, lastReceivedJSON, selectedCustomer, inflight, nextId,
                            ops>>
        ELSE LET newCustomer == [id |-> nextId, name |-> newCustomerName, phone |-> "P",
                                 balance |-> INITIAL_COUNTS, lastTransactionDate |-> Now]
                 prev == data[d]
             IN  /\ SetData(d, [prev EXCEPT !.customers = Append(prev.customers, newCustomer),
                                            !.version = bumpVersion(prev.version)],
                            lastReceivedJSON[d], <<newCustomer>>)
                 /\ nextId' = nextId + 1
                 /\ ops' = ops + 1
                 /\ UNCHANGED alert
    /\ UNCHANGED <<dialog, notify, dbValue, pushLog>>
    /\ UNCHANGED <<mvars, dvars, nvars, fvars, session, wiping>>

\* the payloads the transaction form is submitted with
TxCountsInputs == {INITIAL_COUNTS, OneKind("OXYZONE_LARGE", 1)}

RECURSIVE SumCounts(_, _)
SumCounts(counts, ks) ==
    IF ks = {} THEN 0
    ELSE LET k == CHOOSE j \in ks : TRUE IN counts[k] + SumCounts(counts, ks \ {k})

\* handleEditTransaction (App.tsx 371-377): a transaction of the customer on
\* screen is opened in the form
handleEditTransaction(d) ==
    /\ session[d]
    /\ alert[d] = ""
    /\ dialog[d] = <<>>
    /\ selectedCustomer[d] # <<>>
    /\ ops < MaxOps
    /\ \E i \in DOMAIN data[d].transactions :
        /\ data[d].transactions[i].customerId = selectedCustomer[d][1].id
        /\ dialog' = [dialog EXCEPT ![d] =
                        <<[kind |-> "edit", tx |-> data[d].transactions[i]]>>]
    /\ UNCHANGED <<storage, data, lastReceivedJSON, selectedCustomer, inflight, notify, dbValue,
                   nextId, ops, pushLog>>
    /\ UNCHANGED <<mvars, dvars, nvars, fvars, session, wiping, alert>>

\* the back button of the form (App.tsx 626-630)
CancelEdit(d) ==
    /\ session[d]
    /\ alert[d] = ""
    /\ dialogKind(d) = "edit"
    /\ dialog' = [dialog EXCEPT ![d] = <<>>]
    /\ UNCHANGED <<storage, data, lastReceivedJSON, selectedCustomer, inflight, notify, dbValue,
                   nextId, ops, pushLog>>
    /\ UNCHANGED <<mvars, dvars, nvars, fvars, session, wiping, alert>>

\* mutant: the balance is kept from the customer on screen instead of replayed
updatedCustomerOnSave_stale(sel, updatedTransactions) == sel

\* updatedCustomer of handleSaveTransaction (lines 341-347)
updatedCustomerOnSave(sel, updatedTransactions) ==
    LET r == recalculateCustomerStats(sel.id, updatedTransactions)
    IN  [sel EXCEPT !.balance = r.balance,
                    !.lastTransactionDate =
                        IF r.lastDate # 0 THEN r.lastDate ELSE sel.lastTransactionDate]

\* totalBottles (App.tsx 311)
totalBottles(txCounts) == SumCounts(txCounts, BottleTypes)

\* mutant: the alert is raised but the handler does not return
returnsAtEmptyCheck_never(txCounts) == FALSE

\* if (totalBottles === 0) { showModal(...); return; } (App.tsx 312-315)
returnsAtEmptyCheck(txCounts) == totalBottles(txCounts) = 0

\* handleSaveTransaction (App.tsx 308-369), for a new transaction or for the
\* one in editingTransaction (an edit was counted when its form was opened)
handleSaveTransaction(d) ==
    /\ session[d]
    /\ alert[d] = ""
    /\ selectedCustomer[d] # <<>>
    /\ dialogKind(d) \in {"none", "edit"}
    /\ dialogKind(d) = "edit" \/ ops < MaxOps
    /\ \E txType \in {OUTGOING, INCOMING}, txCounts \in TxCountsInputs :
        IF returnsAtEmptyCheck(txCounts)
        THEN /\ alert' = [alert EXCEPT ![d] = "Empty Transaction"]
             /\ UNCHANGED <<storage, data, lastReceivedJSON, selectedCustomer, dialog, inflight,
                            nextId, ops>>
        ELSE LET sel == selectedCustomer[d][1]
                 prev == data[d]
                 editing == dialog[d] # <<>>
                 newTx == [id |-> nextId, customerId |-> sel.id, customerName |-> sel.name,
                           timestamp |-> Now, type |-> txType, items |-> txCounts,
                           note |-> ""]
                 updatedTransactions ==
                    IF editing
                    THEN [i \in DOMAIN prev.transactions |->
                            IF prev.transactions[i].id = dialog[d][1].tx.id
                            THEN [prev.transactions[i] EXCEPT !.type = txType,
                                                              !.items = txCounts,
                                                              !.note = ""]
                            ELSE prev.transactions[i]]
                    ELSE <<newTx>> \o prev.transactions
                 updatedCustomer == updatedCustomerOnSave(sel, updatedTransactions)
             IN  /\ SetData(d, [prev EXCEPT
                                  !.customers = replaceCustomer(prev.customers, updatedCustomer),
                                  !.transactions = updatedTransactions,
                                  !.version = bumpVersion(prev.version)],
                            lastReceivedJSON[d], <<updatedCustomer>>)
                 /\ dialog' = [dialog EXCEPT ![d] = <<>>]
                 /\ nextId' = IF editing THEN nextId ELSE nextId + 1
                 /\ ops' = ops + 1
                 \* the alert of the check above, had the handler not returned
                 /\ alert' = [alert EXCEPT ![d] =
                                IF totalBottles(txCounts) = 0 THEN "Empty Transaction" ELSE @]
    /\ UNCHANGED <<notify, dbValue, pushLog>>
    /\ UNCHANGED <<mvars, dvars, nvars, fvars, session, wiping>>

\* handleDeleteTransaction (App.tsx 379-383): the confirm modal opens; its
\* onConfirm closes over the data and selectedCustomer of this render
handleDeleteTransaction(d) ==
    /\ session[d]
    /\ alert[d] = ""
    /\ dialog[d] = <<>>
    /\ ops < MaxOps
    /\ selectedCustomer[d] # <<>>
    /\ \E i \in DOMAIN data[d].transactions :
        /\ data[d].transactions[i].customerId = selectedCustomer[d][1].id
        /\ dialog' = [dialog EXCEPT ![d] =
                        <<[kind |-> "delete", txId |-> data[d].transactions[i].id,
                           transactions |-> data[d].transactions,
                           selectedCustomer |-> selectedCustomer[d][1]]>>]
    /\ UNCHANGED <<storage, data, lastReceivedJSON, selectedCustomer, inflight, notify, dbValue,
                   nextId, ops, pushLog>>
    /\ UNCHANGED <<mvars, dvars, nvars, fvars, session, wiping, alert>>

\* Cancel of the modal (part_001 44-48)
CancelDelete(d) ==
    /\ session[d]
    /\ alert[d] = ""
    /\ dialogKind(d) = "delete"
    /\ dialog' = [dialog EXCEPT ![d] = <<>>]
    /\ UNCHANGED <<storage, data, lastReceivedJSON, selectedCustomer, inflight, notify, dbValue,
                   nextId, ops, pushLog>>
    /\ UNCHANGED <<mvars, dvars, nvars, fvars, session, wiping, alert>>

\* mutant: the delete confirmation keeps the previous date like the save
updatedCustomerOnDelete_keepsPrevious(sel, updatedTransactions, now) ==
    LET r == recalculateCustomerStats(sel.id, updatedTransactions)
    IN  [sel EXCEPT !.balance = r.balance,
                    !.lastTransactionDate =
                        IF r.lastDate # 0 THEN r.lastDate ELSE sel.lastTransactionDate]

\* updatedCustomer of the delete confirmation (lines 386-392)
updatedCustomerOnDelete(sel, updatedTransactions, now) ==
    LET r == recalculateCustomerStats(sel.id, updatedTransactions)
    IN  [sel EXCEPT !.balance = r.balance,
                    !.lastTransactionDate = IF r.lastDate # 0 THEN r.lastDate ELSE now]

\* Confirm of the delete modal (App.tsx 382-409)
ConfirmDelete(d) ==
    /\ session[d]
    /\ alert[d] = ""
    /\ dialogKind(d) = "delete"
    /\ LET c == dialog[d][1]
           prev == data[d]
           updatedTransactions == SelectSeq(c.transactions, LAMBDA t : t.id # c.txId)
           updatedCustomer == updatedCustomerOnDelete(c.selectedCustomer,
                                                      updatedTransactions, Now)
       IN  SetData(d, [prev EXCEPT
                         !.customers = replaceCustomer(prev.customers, updatedCustomer),
                         !.transactions = updatedTransactions,
                         !.version = bumpVersion(prev.version)],
                   lastReceivedJSON[d], <<updatedCustomer>>)
    /\ dialog' = [dialog EXCEPT ![d] = <<>>]
    /\ ops' = ops + 1
    /\ UNCHANGED <<notify, dbValue, nextId, pushLog>>
    /\ UNCHANGED <<mvars, dvars, nvars, fvars, session, wiping, alert>>

\* the limits the settings form is filled in with
StoreLimitInputs == {5}

\* onChange of a store-limit input (App.tsx 1044-1050); the version is not bumped
handleStoreLimitChange(d) ==
    /\ session[d]
    /\ alert[d] = ""
    /\ dialog[d] = <<>>
    /\ ops < MaxOps
    /\ \E val \in StoreLimitInputs :
        LET prev == data[d]
        IN  SetData(d, [prev EXCEPT !.storeLimits["OXYZONE_LARGE"] = val],
                    lastReceivedJSON[d], selectedCustomer[d])
    /\ ops' = ops + 1
    /\ UNCHANGED <<dialog, notify, dbValue, nextId, pushLog>>
    /\ UNCHANGED <<mvars, dvars, nvars, fvars, session, wiping, alert>>

\* mutant: the tracking variable is not updated by the subscription callback
trackReceived_keepsOld(normalizedData, old) == old

\* lastReceivedJSON = JSON.stringify(normalizedData) (line 84)
trackReceived(normalizedData, old) == SnapshotJSON(normalizedData)

\* A value event of the subscription: the callback of subscribeToRemoteData
\* (dataManager.ts 65-86) and the App's onDataReceived (App.tsx 149-157)
Pull(d) ==
    /\ notify[d]
    /\ LET normalizedData == normalizePull(dbValue)
           lastJSON == trackReceived(normalizedData, lastReceivedJSON[d])
           prev == data[d]
       IN  IF SnapshotJSON(prev) # SnapshotJSON(normalizedData)
           THEN SetData(d, normalizedData, lastJSON, selectedCustomer[d])
           ELSE /\ lastReceivedJSON' = [lastReceivedJSON EXCEPT ![d] = lastJSON]
                /\ UNCHANGED <<storage, data, selectedCustomer, inflight>>
    /\ notify' = [notify EXCEPT ![d] = FALSE]
    /\ UNCHANGED <<dialog, dbValue, nextId, ops, pushLog>>
    /\ UNCHANGED <<mvars, dvars, nvars, fvars, session, wiping, alert>>

\* mutant: a push that commits puts back the snapshot and the baseline of
\* the moment it was started
PushCommit_restoresOwn(d) ==
    /\ \E p \in inflight[d] :
        /\ dbValue' = <<storeWrite(transactionUpdate(dbValue, p.snap, lastReceivedJSON[d]))>>
        /\ inflight' = [inflight EXCEPT ![d] = @ \ {p}]
        /\ pushLog' = pushLog \cup {[dev |-> d, snap |-> p.snap, base |-> p.base,
                                     outcome |-> "committed"]}
        /\ data' = [data EXCEPT ![d] = p.snap]
        /\ lastReceivedJSON' = [lastReceivedJSON EXCEPT ![d] = p.base]
    /\ notify' = [e \in Devices |-> TRUE]
    /\ UNCHANGED <<storage, selectedCustomer, dialog, nextId, ops>>
    /\ UNCHANGED <<mvars, dvars, nvars, fvars, session, wiping, alert>>

\* runTransaction commits (dataManager.ts 149-185): the update function sees
\* the value the store holds now and the lastReceivedJSON of now; every
\* subscriber, the writer included, is sent the new value
PushCommit(d) ==
    /\ \E p \in inflight[d] :
        /\ dbValue' = <<storeWrite(transactionUpdate(dbValue, p.snap, lastReceivedJSON[d]))>>
        /\ inflight' = [inflight EXCEPT ![d] = @ \ {p}]
        /\ pushLog' = pushLog \cup {[dev |-> d, snap |-> p.snap, base |-> p.base,
                                     outcome |-> "committed"]}
    /\ notify' = [e \in Devices |-> TRUE]
    /\ UNCHANGED <<storage, data, lastReceivedJSON, selectedCustomer, dialog, nextId, ops>>
    /\ UNCHANGED <<mvars, dvars, nvars, fvars, session, wiping, alert>>

\* mutant: the snapshot of a push that failed is written to the store all the same
PushFail_writesAnyway(d) ==
    /\ \E p \in inflight[d] :
        /\ inflight' = [inflight EXCEPT ![d] = @ \ {p}]
        /\ pushLog' = pushLog \cup {[dev |-> d, snap |-> p.snap, base |-> p.base,
                                     outcome |-> "failed"]}
        /\ dbValue' = <<storeWrite(p.snap)>>
    /\ UNCHANGED <<storage, data, lastReceivedJSON, selectedCustomer, dialog, notify, nextId, ops>>
    /\ UNCHANGED <<mvars, dvars, nvars, fvars, session, wiping, alert>>

\* runTransaction rejects (offline, contention): caught and logged (lines 186-188)
PushFail(d) ==
    /\ \E p \in inflight[d] :
        /\ inflight' = [inflight EXCEPT ![d] = @ \ {p}]
        /\ pushLog' = pushLog \cup {[dev |-> d, snap |-> p.snap, base |-> p.base,
                                     outcome |-> "failed"]}
    /\ UNCHANGED <<storage, data, lastReceivedJSON, selectedCustomer, dialog, notify, dbValue,
                   nextId, ops>>
    /\ UNCHANGED <<mvars, dvars, nvars, fvars, session, wiping, alert>>

\* the backup files a user picks: an export of the seeded account, a file
\* that is not JSON, a JSON object without customers
ImportFileKinds == {"backup", "corrupt", "lacking"}

ImportFile(k) ==
    IF k = "backup" THEN [kind |-> "json", value |-> AsRaw(SeededDB)]
    ELSE IF k = "corrupt" THEN [kind |-> "corrupt"]
    ELSE [kind |-> "json",
          value |-> [AsRaw(SeededDB) EXCEPT !.customers = RawAbsent]]

\* handleImport (App.tsx 239-251) with the confirmation of its modal: a
\* rejected file raises an alert only
handleImport(d) ==
    /\ session[d]
    /\ alert[d] = ""
    /\ dialog[d] = <<>>
    /\ ops < MaxOps
    /\ \E k \in ImportFileKinds :
        LET importedData == importDataFromJSON(ImportFile(k))
        IN  IF importedData = <<>>
            THEN /\ alert' = [alert EXCEPT ![d] = "Import Failed"]
                 /\ UNCHANGED <<storage, data, lastReceivedJSON, selectedCustomer, inflight,
                                ops>>
            ELSE /\ SetData(d, FromRaw(importedData[1]), lastReceivedJSON[d],
                            selectedCustomer[d])
                 /\ ops' = ops + 1
                 /\ UNCHANGED alert
    /\ UNCHANGED <<dialog, notify, dbValue, nextId, pushLog>>
    /\ UNCHANGED <<mvars, dvars, nvars, fvars, session, wiping>>

\* handleLogout confirmed (App.tsx 225-236) and the auth listener's call with
\* null (138-146): the snapshot stays in memory, the subscription stays
handleLogout(d) ==
    /\ session[d]
    /\ alert[d] = ""
    /\ dialog[d] = <<>>
    /\ ops < MaxOps
    /\ session' = [session EXCEPT ![d] = FALSE]
    /\ ops' = ops + 1
    /\ UNCHANGED <<storage, data, lastReceivedJSON, selectedCustomer, dialog, inflight, notify,
                   dbValue, nextId, pushLog>>
    /\ UNCHANGED <<mvars, dvars, nvars, fvars, wiping, alert>>

\* the auth listener is called with a user (App.tsx 138-146): currentUser
\* changes and the save-on-change effect runs for the snapshot in memory
AuthSignedIn(d) ==
    /\ ~session[d]
    /\ session' = [session EXCEPT ![d] = TRUE]
    /\ saveOnChange(d, data[d], lastReceivedJSON[d], TRUE)
    /\ UNCHANGED <<data, lastReceivedJSON, selectedCustomer, dialog, notify, dbValue, nextId,
                   ops, pushLog>>
    /\ UNCHANGED <<mvars, dvars, nvars, fvars, wiping, alert>>

\* handleClearData with both of its modals confirmed (App.tsx 253-262) up to
\* the await of clearRemoteData: lastReceivedJSON = '' (dataManager.ts 193)
handleClearData(d) ==
    /\ session[d]
    /\ alert[d] = ""
    /\ dialog[d] = <<>>
    /\ wiping[d] = <<>>
    /\ ops < MaxOps
    /\ lastReceivedJSON' = [lastReceivedJSON EXCEPT ![d] = <<>>]
    /\ wiping' = [wiping EXCEPT ![d] = <<lastReceivedJSON[d]>>]
    /\ ops' = ops + 1
    /\ UNCHANGED <<storage, data, selectedCustomer, dialog, inflight, notify, dbValue, nextId,
                   pushLog>>
    /\ UNCHANGED <<mvars, dvars, nvars, fvars, session, alert>>

\* mutant: the wipe goes through the merge of a push
clearedValue_merged(currentData, lastJSON) ==
    transactionUpdate(currentData, EMPTY_DB, lastJSON)

\* the object clearRemoteData hands to set() (dataManager.ts 195-200)
clearedValue(currentData, lastJSON) ==
    [customers |-> <<>>, transactions |-> <<>>, version |-> 1,
     storeLimits |-> INITIAL_COUNTS]

\* emptyState of handleClearData (App.tsx 264)
emptyState ==
    [customers |-> <<>>, transactions |-> <<>>, version |-> 1,
     storeLimits |-> INITIAL_COUNTS]

\* set() of clearRemoteData resolves (dataManager.ts 195-200), then
\* setData(emptyState) and saveToStorage(emptyState) (App.tsx 264-266); the
\* alert that follows is left open
ClearCommit(d) ==
    /\ wiping[d] # <<>>
    /\ dbValue' = <<storeWrite(clearedValue(dbValue, lastReceivedJSON[d]))>>
    /\ notify' = [e \in Devices |-> TRUE]
    /\ data' = [data EXCEPT ![d] = emptyState]
    /\ selectedCustomer' = [selectedCustomer EXCEPT ![d] =
                                syncSelected(@, emptyState.customers)]
    /\ storage' = [storage EXCEPT ![d] = <<emptyState>>]
    /\ wiping' = [wiping EXCEPT ![d] = <<>>]
    /\ pushLog' = pushLog \cup {[dev |-> d, snap |-> data[d], base |-> lastReceivedJSON[d],
                                 outcome |-> "wiped"]}
    /\ UNCHANGED <<lastReceivedJSON, dialog, inflight, nextId, ops>>
    /\ UNCHANGED <<mvars, dvars, nvars, fvars, session, alert>>

\* set() of clearRemoteData rejects: the catch of handleClearData raises an
\* alert (App.tsx 274-276)
ClearFail(d) ==
    /\ wiping[d] # <<>>
    /\ wiping' = [wiping EXCEPT ![d] = <<>>]
    /\ pushLog' = pushLog \cup {[dev |-> d, snap |-> data[d], base |-> lastReceivedJSON[d],
                                 outcome |-> "wipeFailed"]}
    /\ UNCHANGED <<storage, data, lastReceivedJSON, selectedCustomer, dialog, inflight, notify,
                   dbValue, nextId, ops>>
    /\ UNCHANGED <<mvars, dvars, nvars, fvars, session, alert>>

\* the alert is closed (closeModal, App.tsx 121)
closeModal(d) ==
    /\ alert[d] # ""
    /\ alert' = [alert EXCEPT ![d] = ""]
    /\ UNCHANGED <<storage, data, lastReceivedJSON, selectedCustomer, dialog, inflight, notify,
                   dbValue, nextId, ops, pushLog>>
    /\ UNCHANGED <<mvars, dvars, nvars, fvars, session, wiping>>

Next ==
    \E d \in Devices :
        \/ SelectCustomer(d)
        \/ handleCreateCustomer(d)
        \/ handleEditTransaction(d)
        \/ CancelEdit(d)
        \/ handleSaveTransaction(d)
        \/ handleDeleteTransaction(d)
        \/ CancelDelete(d)
        \/ ConfirmDelete(d)
        \/ handleStoreLimitChange(d)
        \/ Pull(d)
        \/ PushCommit(d)
        \/ PushFail(d)
        \/ handleImport(d)
        \/ handleLogout(d)
        \/ AuthSignedIn(d)
        \/ handleClearData(d)
        \/ ClearCommit(d)
        \/ ClearFail(d)
        \/ closeModal(d)

Spec == Init /\ [][Next]_vars

\* C6: the value event that replaces a device's snapshot starts no push of
\* that device and writes nothing to the store: the effect that follows the
\* replacement returns from pushToRemoteData before the transaction.
C6_LoopPrevention ==
    [][\A d \in Devices :
          (notify[d] /\ ~notify'[d])
          => /\ inflight'[d] = inflight[d]
             /\ dbValue' = dbValue
             /\ data'[d] # data[d] => SnapshotJSON(data'[d]) = lastReceivedJSON'[d]]_vars

\* no device has mutated anything, and d2 holds the customer of the account:
\* its snapshot was replaced by a value event, and nothing is in flight
C6_Witness ==
    /\ ops = 0
    /\ Len(data["d2"].customers) = 1
    /\ ~notify["d2"]
    /\ lastReceivedJSON["d2"] = SnapshotJSON(data["d2"])
    /\ inflight["d2"] = {}
    /\ dbValue = <<storeWrite(SeededDB)>>

\* the snapshots of the system: every device's and the store's
Snapshots == {data[d] : d \in Devices} \cup {normalizePull(dbValue)}

BalanceIsReplayed(snap) ==
    \A i \in DOMAIN snap.customers :
        snap.customers[i].balance
            = recalculateCustomerStats(snap.customers[i].id, snap.transactions).balance

\* C7: in every snapshot, a device's or the store's, every customer's cached
\* balance is the balance replayed from the snapshot's transactions.
C7_CachedBalanceInvariant == \A snap \in Snapshots : BalanceIsReplayed(snap)

\* a step of device d that creates, edits or deletes a transaction
TxnMutation(d) ==
    /\ ops' = ops + 1
    /\ data'[d] # data[d]
    /\ Len(data'[d].customers) = Len(data[d].customers)
    /\ data'[d].storeLimits = data[d].storeLimits
    /\ data'[d].version = bumpVersion(data[d].version)

\* the records the new snapshot of d holds for the customer on screen
ScreenCustomerRecords(d) ==
    {i \in DOMAIN data'[d].customers :
        data'[d].customers[i].id = selectedCustomer'[d][1].id}

\* C8 as claimed: after a create, edit or delete of a transaction the
\* customer's balance and last-activity value are those derived from the new
\* transaction collection.
C8_RecomputedAsClaimed ==
    [][\A d \in Devices :
          TxnMutation(d) =>
            \A i \in ScreenCustomerRecords(d) :
                LET r == recalculateCustomerStats(data'[d].customers[i].id,
                                                  data'[d].transactions)
                IN  /\ data'[d].customers[i].balance = r.balance
                    /\ data'[d].customers[i].lastTransactionDate = r.lastDate]_vars

\* C8 amended: the balance is the derived balance; the last-activity value is
\* the derived one when the customer still has a transaction (the derived
\* value is 0 otherwise, and the handler substitutes its fallback).
C8_Recomputed ==
    [][\A d \in Devices :
          TxnMutation(d) =>
            \A i \in ScreenCustomerRecords(d) :
                LET r == recalculateCustomerStats(data'[d].customers[i].id,
                                                  data'[d].transactions)
                IN  /\ data'[d].customers[i].balance = r.balance
                    /\ r.lastDate # 0 =>
                         data'[d].customers[i].lastTransactionDate = r.lastDate]_vars

\* d1 has saved a transaction that no store value holds yet: its customer's
\* balance is not zero and is the replayed one
C8_Witness ==
    /\ ops >= 1
    /\ selectedCustomer["d1"] # <<>>
    /\ Len(data["d1"].transactions) >= 1
    /\ normalizePull(dbValue).transactions = <<>>
    /\ \E i \in DOMAIN data["d1"].customers :
        /\ data["d1"].customers[i].id = selectedCustomer["d1"][1].id
        /\ data["d1"].customers[i].balance # INITIAL_COUNTS
        /\ data["d1"].customers[i].balance
             = recalculateCustomerStats(data["d1"].customers[i].id,
                                        data["d1"].transactions).balance
        /\ data["d1"].customers[i].lastTransactionDate
             = data["d1"].transactions[1].timestamp

\* every device has received the value events due to it and has no push
\* and no wipe awaiting its write
Quiescent == \A d \in Devices : ~notify[d] /\ inflight[d] = {} /\ wiping[d] = <<>>

\* C13: once every device has received every pending value event and no push
\* is outstanding, every device's snapshot is the normalised value of the
\* store (and, inflight being empty, no device writes to the store again
\* without a new local mutation).
C13_Convergence ==
    Quiescent => \A d \in Devices : data[d] = normalizePull(dbValue)

IdsOf(list) == {list[i].id : i \in DOMAIN list}

\* the identifiers of the customers and transactions of a snapshot
EntityIds(snap) == IdsOf(snap.customers) \cup IdsOf(snap.transactions)

\* the entities a push adds to the baseline its device had when it was started
AddedIds(p) == EntityIds(p.snap) \ EntityIds(mergeBase(p.base))

\* the pushes a step commits
Committing == {q \in pushLog' \ pushLog : q.outcome = "committed"}

\* C14: two devices start from the same baseline and each adds an entity of
\* its own; when the second of the two pushes commits, the store holds both
\* entities.
C14_NoLostUpdate ==
    [][\A q \in Committing : \A p \in pushLog :
          (p.outcome = "committed" /\ p.dev # q.dev /\ p.base = q.base)
          => \A x \in AddedIds(p) \cap EntityIds(normalizePull(dbValue)) :
               \A y \in AddedIds(q) :
                  x # y => {x, y} \subseteq EntityIds(normalizePull(dbValue'))]_vars

\* the value the update function returns when the push q commits in this step
CommittedValue(q) == transactionUpdate(dbValue, q.snap, lastReceivedJSON[q.dev])

\* C15: when a push commits, the lastReceivedJSON of its device is the
\* serialisation of the value that was written.
C15_BaselineAfterPush ==
    [][\A q \in Committing :
          lastReceivedJSON'[q.dev] = SnapshotJSON(CommittedValue(q))]_vars

\* the step in which device d handles a value event
PullStep(d) == notify[d] /\ ~notify'[d]

\* C16: a value event is normalised and compared by serialisation with the
\* snapshot in memory; if they differ the snapshot becomes the normalised
\* payload and lastReceivedJSON its serialisation, otherwise the snapshot is
\* left as it is.
C16_PullFlow ==
    [][\A d \in Devices :
          PullStep(d) =>
            LET payload == normalizePull(dbValue)
            IN  IF SnapshotJSON(data[d]) # SnapshotJSON(payload)
                THEN /\ data'[d] = payload
                     /\ lastReceivedJSON'[d] = SnapshotJSON(payload)
                ELSE data'[d] = data[d]]_vars

\* d1 holds, after a value event, the customer that d2 created and pushed
C16_Witness ==
    /\ ~notify["d1"]
    /\ \E q \in pushLog : q.dev = "d2" /\ q.outcome = "committed"
    /\ \A q \in pushLog : q.dev = "d2"
    /\ inflight["d1"] = {}
    /\ Len(data["d1"].customers) >= 1
    /\ data["d1"].customers[Len(data["d1"].customers)].id >= 2
    /\ data["d1"] = normalizePull(dbValue)
    /\ lastReceivedJSON["d1"] = SnapshotJSON(normalizePull(dbValue))

\* C17: a push that commits on a store that holds a value writes the merge of
\* the customers and of the transactions (base: the snapshot of
\* lastReceivedJSON, remote: the normalised store value, local: the snapshot
\* pushed), the remote version plus one, and the local store limits.
C17_MergedWrite ==
    [][\A q \in Committing :
          dbValue # <<>> =>
            LET rem == normalizePull(dbValue)
                base == mergeBase(lastReceivedJSON[q.dev])
                written == normalizePull(dbValue')
            IN  /\ written.customers
                     = mergeArrays(base.customers, rem.customers, q.snap.customers)
                /\ written.transactions
                     = mergeArrays(base.transactions, rem.transactions, q.snap.transactions)
                /\ written.version = rem.version + 1
                /\ written.storeLimits = q.snap.storeLimits]_vars

\* d1's push of a changed store limit was merged with the customer d2 had
\* added to the store in the meantime
C17_Witness ==
    /\ \E q \in pushLog :
        /\ q.dev = "d1" /\ q.outcome = "committed"
        /\ q.snap.storeLimits["OXYZONE_LARGE"] = 5
        /\ IdsOf(q.snap.customers) = {1}
        /\ normalizePull(dbValue).storeLimits = q.snap.storeLimits
    /\ IdsOf(normalizePull(dbValue).customers) = {1, 2}
    /\ normalizePull(dbValue).version = 4
    /\ inflight = [d \in Devices |-> {}]

\* C18: a push that commits on an empty store writes the local snapshot as
\* it is: customers, transactions, version and store limits.
C18_FirstWriter ==
    [][\A q \in Committing :
          dbValue = <<>> =>
            /\ normalizePull(dbValue') = q.snap
            /\ dbValue' = <<storeWrite(q.snap)>>]_vars

\* the first push of an account: a snapshot with one customer, started when
\* lastReceivedJSON already held the serialisation of the empty value
C18_Witness ==
    /\ Cardinality(pushLog) = 1
    /\ \E q \in pushLog :
        /\ q.outcome = "committed"
        /\ q.base # <<>>
        /\ q.snap.version = 2
        /\ Len(q.snap.customers) = 1
        /\ normalizePull(dbValue) = q.snap
    /\ inflight = [d \in Devices |-> {}]

\* the pushes whose transaction is rejected in a step
Failing == {q \in pushLog' \ pushLog : q.outcome = "failed"}

\* C19: a push whose transaction fails changes neither the store, nor the
\* lastReceivedJSON, nor the snapshot of any device; it is dropped, and no
\* other push is queued in its place.
C19_FailedPushNoEffect ==
    [][\A q \in Failing :
          /\ dbValue' = dbValue
          /\ lastReceivedJSON' = lastReceivedJSON
          /\ data' = data
          /\ notify' = notify
          /\ inflight' = [inflight EXCEPT ![q.dev] =
                              @ \ {[snap |-> q.snap, base |-> q.base]}]]_vars

\* d1's push of a new customer failed on an empty store: d1 keeps the
\* snapshot, the store is still empty, nothing is in flight
C19_Witness ==
    /\ \E q \in pushLog :
        /\ q.dev = "d1" /\ q.outcome = "failed"
        /\ Len(q.snap.customers) = 1
        /\ data["d1"] = q.snap
        /\ lastReceivedJSON["d1"] = q.base
    /\ Cardinality(pushLog) = 1
    /\ dbValue = <<>>
    /\ inflight = [d \in Devices |-> {}]

\* the entities in d's memory that a failed push of d had added, that are
\* not in the store, and that no finished or pending push of d carries
FailedOnly(d) ==
    {e \in EntityIds(data[d]) :
        /\ \E q \in pushLog : q.dev = d /\ q.outcome = "failed" /\ e \in AddedIds(q)
        /\ e \notin EntityIds(normalizePull(dbValue))
        /\ \A p \in pushLog : (p.dev = d /\ p.outcome = "committed") => e \notin EntityIds(p.snap)
        /\ \A p \in inflight[d] : e \notin EntityIds(p.snap)}

\* C20: the entities of a mutation whose push failed are not discarded from
\* the device's snapshot before they have been pushed: a value event leaves
\* them in memory.
C20_FailedMutationKept ==
    [][\A d \in Devices :
          PullStep(d) => FailedOnly(d) \subseteq EntityIds(data'[d])]_vars

(***************************************************************************)
(* Claims about loadFromStorage and importDataFromJSON (SpecFiles).        *)
(***************************************************************************)
\* the JSON object of a blob lacks customers or transactions
LacksCollections(blob) ==
    IF blob.kind = "json" THEN ~HasCollections(blob.value) ELSE FALSE

\* a value with two empty lists, version 1 and limits of zero
IsEmptyDefault(v) ==
    /\ IsValidSnapshot(v)
    /\ v.customers.items = <<>>
    /\ v.transactions.items = <<>>
    /\ v.version = 1
    /\ v.storeLimits = <<INITIAL_COUNTS>>

\* C24: whatever blob is stored (absent, not JSON, JSON without customers
\* or without transactions, well-formed), loadFromStorage returns a value
\* with a customers list, a transactions list and store limits; and it
\* returns the empty default when the blob is absent, is not JSON or lacks
\* one of the two collections.
C24_LoadAlwaysValid ==
    fPc = "loaded" =>
        /\ IsValidSnapshot(fLoaded[1])
        /\ (fBlob.kind # "json" \/ LacksCollections(fBlob))
               => IsEmptyDefault(fLoaded[1])

\* C25: a backup file without customers or without transactions is
\* rejected, and the value an accepted file resolves to is the snapshot
\* the normalisation of a remote value makes of the file's object (lists
\* for both collections, a version, store limits).
C25_ImportNormalized ==
    fPc = "imported" =>
        /\ LacksCollections(fBlob) => fImported = <<>>
        /\ fImported # <<>> =>
               IF IsValidSnapshot(fImported[1])
               THEN FromRaw(fImported[1]) = normalizePull(<<fBlob.value>>)
               ELSE FALSE

(***************************************************************************)
(* Claims about the wipe, the push trigger and the version counter (Spec). *)
(***************************************************************************)
\* the wipes whose write is made in this step
Wiped == {q \in pushLog' \ pushLog : q.outcome = "wiped"}

NonEmpty(snap) == Len(snap.customers) > 0 \/ Len(snap.transactions) > 0

\* after the step pushToRemoteData has been called with the new snapshot of
\* d: it returned at its guard, or its transaction is awaited
PushAttempted(d) ==
    \/ pushSuppressed(data'[d], lastReceivedJSON'[d])
    \/ [snap |-> data'[d], base |-> lastReceivedJSON'[d]] \in inflight'[d]

\* C22: every step that changes the in-memory snapshot of a device whose
\* session is active, to a snapshot with a customer or a transaction, calls
\* the push with that snapshot, whatever handler made the change (a local
\* mutation, a store-limits edit, an import, a value event); and no step
\* starts a push of a device that has no session or whose snapshot has
\* neither customers nor transactions.
C22_PushTrigger ==
    [][\A d \in Devices :
          /\ (data'[d] # data[d] /\ session'[d] /\ NonEmpty(data'[d]))
                 => PushAttempted(d)
          /\ (~session'[d] \/ ~NonEmpty(data'[d]))
                 => inflight'[d] \subseteq inflight[d]]_vars

\* one device awaits the push of its snapshot after a store-limits edit,
\* while a device without session holds a pulled snapshot and pushes nothing
C22_Witness ==
    \E d \in Devices, e \in Devices :
        /\ session[d]
        /\ data[d].storeLimits # INITIAL_COUNTS
        /\ \E p \in inflight[d] : p.snap = data[d]
        /\ ~session[e]
        /\ NonEmpty(data[e])
        /\ inflight[e] = {}

\* a step of device d that changes its store limits and nothing else
LimitEdit(d) ==
    /\ ops' = ops + 1
    /\ data'[d].storeLimits # data[d].storeLimits
    /\ data'[d].storeLimits["OXYZONE_LARGE"] \in StoreLimitInputs
    /\ data'[d].customers = data[d].customers
    /\ data'[d].transactions = data[d].transactions

\* the version a subscriber reads from the store
RemoteVersion(val) == normalizePull(val).version

\* C23: a store-limits edit increments the version of the device's
\* snapshot like every other local mutation; the version of a device's
\* snapshot does not decrease in a value event; and the version of the
\* store's value does not decrease in any step that is not a wipe.
C23_VersionCounter ==
    [][/\ \A d \in Devices :
            /\ LimitEdit(d) => data'[d].version = data[d].version + 1
            /\ PullStep(d) => data'[d].version >= data[d].version
       /\ Wiped = {} => RemoteVersion(dbValue') >= RemoteVersion(dbValue)]_vars

(***************************************************************************)
(* Claims about pushes and pulls that overlap (Spec).                      *)
(***************************************************************************)
\* C26: on every device at most one push awaits its transaction at any
\* time.
C26_SinglePushInFlight == \A d \in Devices : Cardinality(inflight[d]) <= 1

\* C27: the step in which a push of a device completes, committed or
\* failed, leaves that device's snapshot and its lastReceivedJSON as they
\* are: what a value event set between the start of the push and its
\* completion is still there afterwards, whole.
C27_PullSurvivesPush ==
    [][\A q \in Committing \cup Failing :
          /\ data'[q.dev] = data[q.dev]
          /\ lastReceivedJSON'[q.dev] = lastReceivedJSON[q.dev]]_vars

\* a push has committed whose device received a value event after the push
\* was started and none since: snapshot and baseline are the pulled value,
\* not the pushed snapshot and not the baseline of the start
C27_Witness ==
    \E q \in pushLog :
        /\ pushLog = {q}
        /\ q.outcome = "committed"
        /\ notify[q.dev]
        /\ lastReceivedJSON[q.dev] # <<>>
        /\ lastReceivedJSON[q.dev] # q.base
        /\ SnapshotJSON(data[q.dev]) = lastReceivedJSON[q.dev]
        /\ data[q.dev] # q.snap

\* the entities of the store that the device of push q neither had in its
\* baseline at the start of the push nor has in the pushed snapshot: added
\* by another device, unknown to this device's user
ForeignIds(q) ==
    EntityIds(normalizePull(dbValue))
        \ (EntityIds(mergeBase(q.base)) \cup EntityIds(q.snap))

\* C29: when the merge of a push runs (the store holds a value), the
\* lastReceivedJSON it reads is the one of the moment the push was started,
\* and every entity of the store that the pushing device never held is
\* still in the store after the commit.
C29_MergeBaseMatches ==
    [][\A q \in Committing :
          dbValue # <<>> =>
            /\ lastReceivedJSON[q.dev] = q.base
            /\ ForeignIds(q) \subseteq EntityIds(normalizePull(dbValue'))]_vars

(***************************************************************************)
(* Claims about mergeArrays and recalculateCustomerStats as functions.     *)
(***************************************************************************)
\* identifier id is in base and, unchanged, in local, it is gone from
\* remote, and local differs from base in another entity
DeletedRemotelyOnly(id) ==
    /\ MapHas(mBase, id) /\ MapHas(mLocal, id) /\ ~MapHas(mRemote, id)
    /\ MapGet(mLocal, id) = MapGet(mBase, id)
    /\ \E other \in Ids \ {id} :
          /\ MapHas(mLocal, other)
          /\ ~MapHas(mBase, other) \/ MapGet(mLocal, other) # MapGet(mBase, other)

\* C30: an entity that the remote collection no longer holds (another
\* device deleted it and committed), and that base and local both hold
\* unmodified while local changes another entity, is not in the merged
\* collection.
C30_DeletionNotUndone ==
    mPc = "done" => \A id \in Ids : DeletedRemotelyOnly(id) => MergedFor(id) = {}

\* returns of customer c1 that no delivery precedes
UnmatchedIncoming ==
    <<ExampleTxn(1, 1, INCOMING, 2), ExampleTxn(2, 2, INCOMING, 1)>>

\* SpecTotal: mergeArrays on every triple of collections and
\* recalculateCustomerStats on every transaction list of SpecDerive, each
\* called once
InitTotal ==
    /\ IdleNorm
    /\ IdleFiles
    /\ IdleSystem
    /\ \/ /\ mBase \in Collections /\ mRemote \in Collections /\ mLocal \in Collections
          /\ dInput = UnmatchedIncoming
       \/ /\ mBase = <<>> /\ mRemote = <<>> /\ mLocal = <<>>
          /\ \/ \E n \in 0..MaxTxns : \E f \in [1..n -> TxnShapes] : dInput = TxnList(n, f)
             \/ dInput \in {ExampleList, NewestFirstList}
    /\ mMerged = <<>>
    /\ mPc = "init"
    /\ dTxns = dInput
    /\ dCid = "c1"
    /\ dResult = <<>>
    /\ dAgain = <<>>
    /\ dPc = "init"

NextTotal == MergeCall \/ DeriveCall

SpecTotal == InitTotal /\ [][NextTotal]_vars

\* the elements of a list
RangeOf(list) == {list[i] : i \in DOMAIN list}

\* C28: on every triple of collections mergeArrays returns a collection
\* whose elements are entities of remote or of local, and on every
\* transaction list recalculateCustomerStats returns a balance for every
\* kind and a timestamp; a kind of which the customer has returns but no
\* delivery gets the negated total of the returns, a number below zero.
C28_Total ==
    /\ mPc = "done" =>
          /\ DOMAIN mMerged = 1..Len(mMerged)
          /\ RangeOf(mMerged) \subseteq RangeOf(mRemote) \cup RangeOf(mLocal)
    /\ dPc = "done" =>
          /\ dResult[1].balance \in [BottleTypes -> Int]
          /\ dResult[1].lastDate \in Nat
          /\ \A k \in BottleTypes :
                LET out == SumQty(dInput, TxnsOf(dInput, dCid, OUTGOING), k)
                    in == SumQty(dInput, TxnsOf(dInput, dCid, INCOMING), k)
                IN  (out = 0 /\ in > 0) =>
                        dResult[1].balance[k] = 0 - in /\ dResult[1].balance[k] < 0

\* both functions have returned; the customer's two unmatched returns of
\* 2 and 1 give a balance of -3, and the merge returned two entities
C28_Witness ==
    /\ mPc = "done"
    /\ dPc = "done"
    /\ dInput = UnmatchedIncoming
    /\ dResult[1].balance["OXYZONE_LARGE"] = 0 - 3
    /\ Len(mMerged) = 2

(***************************************************************************)
(* Claims about the shape of the merge and the merge on an unset baseline. *)
(***************************************************************************)
\* entity e is the entity list holds for e's identifier
IsEntityOf(e, list) == IF MapHas(list, e.id) THEN MapGet(list, e.id) = e ELSE FALSE

\* C32: for collections with unique identifiers the merged collection has
\* unique identifiers, every merged entity is the entity remote or local
\* holds for its identifier, and every identifier of local is in the merged
\* collection.
C32_MergeShape ==
    mPc = "done" =>
        /\ UniqueIds(mMerged)
        /\ \A i \in DOMAIN mMerged :
              IsEntityOf(mMerged[i], mRemote) \/ IsEntityOf(mMerged[i], mLocal)
        /\ \A id \in Ids : MapHas(mLocal, id) => MergedFor(id) # {}

\* a merge of three non-empty collections that took one entity from remote,
\* where local holds another version of it, and one from local
C32_Witness ==
    /\ mPc = "done"
    /\ mBase # <<>>
    /\ Len(mRemote) = 2 /\ Len(mLocal) = 2 /\ Len(mMerged) = 2
    /\ \E i \in DOMAIN mMerged :
          IsEntityOf(mMerged[i], mRemote) /\ ~IsEntityOf(mMerged[i], mLocal)
    /\ \E i \in DOMAIN mMerged :
          IsEntityOf(mMerged[i], mLocal) /\ ~IsEntityOf(mMerged[i], mRemote)

\* written holds exactly the identifiers of remote and of local, local's
\* entity for an identifier of local and remote's entity for the others
UnionLocalWins(remote, local, written) ==
    /\ IdsOf(written) = IdsOf(remote) \cup IdsOf(local)
    /\ \A i \in DOMAIN written :
          IF MapHas(local, written[i].id)
          THEN written[i] = MapGet(local, written[i].id)
          ELSE written[i] = MapGet(remote, written[i].id)

\* C33: when a push commits while the lastReceivedJSON of its device is ''
\* (no value event received yet, or a wipe has just reset it), each written
\* collection is the union by identifier of the store's collection and the
\* pushed one, with the pushed entity for every identifier in both: nothing
\* the store held is dropped.
C33_UnsetBaselineUnion ==
    [][\A q \in Committing :
          lastReceivedJSON[q.dev] = <<>> =>
            LET rem == normalizePull(dbValue)
                written == normalizePull(dbValue')
            IN  /\ UnionLocalWins(rem.customers, q.snap.customers, written.customers)
                /\ UnionLocalWins(rem.transactions, q.snap.transactions,
                                  written.transactions)]_vars

\* a device that has received no value event has committed a customer of
\* its own to a store that held another one; the store holds both
C33_Witness ==
    \E q \in pushLog :
        /\ pushLog = {q}
        /\ q.outcome = "committed"
        /\ q.base = <<>>
        /\ lastReceivedJSON[q.dev] = <<>>
        /\ IdsOf(q.snap.customers) # {}
        /\ IdsOf(normalizePull(dbValue).customers) \ IdsOf(q.snap.customers) # {}
        /\ IdsOf(q.snap.customers) \subseteq IdsOf(normalizePull(dbValue).customers)

SaveNewStep(d) ==
    /\ nextId' = nextId + 1
    /\ nextId \in IdsOf(data'[d].transactions)

SaveEditStep(d) ==
    /\ dialogKind(d) = "edit"
    /\ dialog'[d] = <<>>
    /\ ops' = ops + 1

DeleteStep(d) ==
    /\ dialogKind(d) = "delete"
    /\ dialog'[d] = <<>>
    /\ ops' = ops + 1

\* the entities of a list other than the one with identifier id
OthersThan(list, id) == SelectSeq(list, LAMBDA e : e.id # id)

\* a step of d that leaves alone every transaction other than tid, every
\* customer other than cid, and the store limits
FrameKept(d, tid, cid) ==
    /\ OthersThan(data'[d].transactions, tid) = OthersThan(data[d].transactions, tid)
    /\ OthersThan(data'[d].customers, cid) = OthersThan(data[d].customers, cid)
    /\ data'[d].storeLimits = data[d].storeLimits

\* the edited transaction keeps identifier, customer, customer name and
\* timestamp
IdentityKept(d, tid) ==
    \A i \in DOMAIN data[d].transactions, j \in DOMAIN data'[d].transactions :
        (data[d].transactions[i].id = tid /\ data'[d].transactions[j].id = tid) =>
            LET old == data[d].transactions[i]
                new == data'[d].transactions[j]
            IN  /\ new.customerId = old.customerId
                /\ new.customerName = old.customerName
                /\ new.timestamp = old.timestamp

\* C35: saving an edited transaction leaves its identifier, customer
\* identifier, customer name and timestamp as they were; saving a new or an
\* edited transaction and confirming a deletion leave every other
\* transaction and every other customer record of the snapshot, and the
\* store limits, unchanged.
C35_TransactionFrame ==
    [][\A d \in Devices :
          /\ SaveNewStep(d) => FrameKept(d, nextId, selectedCustomer[d][1].id)
          /\ SaveEditStep(d) =>
                /\ IdentityKept(d, dialog[d][1].tx.id)
                /\ FrameKept(d, dialog[d][1].tx.id, selectedCustomer[d][1].id)
          /\ DeleteStep(d) =>
                FrameKept(d, dialog[d][1].txId, dialog[d][1].selectedCustomer.id)]_vars

\* the last-activity values device d holds after the step for customer cid:
\* in the records of its snapshot and in the customer on screen
LastActivityValues(d, cid) ==
    {data'[d].customers[i].lastTransactionDate :
        i \in {j \in DOMAIN data'[d].customers : data'[d].customers[j].id = cid}}
    \cup {selectedCustomer'[d][1].lastTransactionDate}

\* the value the step must leave for cid: the largest timestamp of the
\* customer's transactions, or the fallback when there are none
ExpectedLastActivity(d, cid, fallback) ==
    LET derived == recalculateCustomerStats(cid, data'[d].transactions).lastDate
    IN  IF MaxTimestamp(data'[d].transactions, cid) # 0
        THEN IF derived = MaxTimestamp(data'[d].transactions, cid) THEN {derived} ELSE {}
        ELSE IF derived = 0 THEN {fallback} ELSE {}

\* C36: the derivation returns lastDate 0 for a customer without
\* transactions; after a save that leaves the customer without transactions
\* the customer's last-activity value is the one they had before, after
\* the deletion of their last transaction it is the current time, and in
\* every other save or deletion it is the largest timestamp of the
\* customer's transactions.
C36_LastActivityFallback ==
    [][\A d \in Devices :
          /\ (SaveNewStep(d) \/ SaveEditStep(d)) =>
                LET sel == selectedCustomer[d][1]
                IN  LastActivityValues(d, sel.id)
                        = ExpectedLastActivity(d, sel.id, sel.lastTransactionDate)
          /\ DeleteStep(d) =>
                LET sel == dialog[d][1].selectedCustomer
                IN  LastActivityValues(d, sel.id) = ExpectedLastActivity(d, sel.id, Now)]_vars

\* a customer's only transaction was saved and then deleted: the customer
\* has no transactions and carries the time of the deletion
C36_Witness ==
    \E d \in Devices :
        /\ ops = 2
        /\ selectedCustomer[d] # <<>>
        /\ \E i \in DOMAIN data[d].customers :
              /\ data[d].customers[i] = selectedCustomer[d][1]
              /\ data[d].customers[i].lastTransactionDate = nextId
        /\ MaxTimestamp(data[d].transactions, selectedCustomer[d][1].id) = 0

\* the step in which a handler of device d refuses its input and raises
\* its alert
RefusedStep(d) == alert[d] = "" /\ alert'[d] \in {"Empty Transaction", "Missing Information"}

\* C37: a save of a transaction whose quantities sum to zero and a creation
\* of a customer with an empty name leave the snapshot of the device
\* (customers, transactions, version, store limits) as it is and start no
\* push; a save without a customer on screen is no step at all.
C37_RejectedChangesNothing ==
    [][\A d \in Devices :
          RefusedStep(d) =>
            /\ data'[d] = data[d]
            /\ inflight'[d] = inflight[d]
            /\ storage'[d] = storage[d]
            /\ dbValue' = dbValue
            /\ selectedCustomer'[d] = selectedCustomer[d]]_vars

\* one device was refused an empty transaction for the customer on its
\* screen, another one a customer without a name
C37_Witness ==
    \E d \in Devices, e \in Devices :
        /\ alert[d] = "Empty Transaction"
        /\ selectedCustomer[d] # <<>>
        /\ NonEmpty(data[d])
        /\ alert[e] = "Missing Information"

(***************************************************************************)
(* Claims about a wipe that fails and a wipe that reaches the others.      *)
(***************************************************************************)
\* the wipes whose write fails in this step
WipeFailing == {q \in pushLog' \ pushLog : q.outcome = "wipeFailed"}

\* C38: when the write of a wipe fails, the device's snapshot in memory and
\* in local storage are left as they are, and unless a value event set it
\* meanwhile its lastReceivedJSON is again the one it was when the wipe was
\* attempted.
C38_FailedWipeNoEffect ==
    [][\A q \in WipeFailing :
          /\ data'[q.dev] = data[q.dev]
          /\ storage'[q.dev] = storage[q.dev]
          /\ lastReceivedJSON'[q.dev] = <<>> => wiping[q.dev][1] = <<>>]_vars

\* the entities a device had received from the store before it started
\* push q and that the wiping device of w held when its wipe was written
PreWipeIds(w, q) == EntityIds(w.snap) \cap EntityIds(mergeBase(q.base))

\* C31: once the wipe of one device has been written, no push of another
\* device that commits afterwards leaves in the store a customer or a
\* transaction from before the wipe, also when that device started the
\* push from a baseline of before the wipe.
C31_WipeStays ==
    [][\A q \in Committing : \A w \in pushLog :
          (w.outcome = "wiped" /\ w.dev # q.dev) =>
              PreWipeIds(w, q) \cap EntityIds(normalizePull(dbValue')) = {}]_vars

====
